---- MODULE Spec2Model ----
(***************************************************************************)
(* Model of src/src/async_support.rs: the thread-local task queue TASKS,   *)
(* the lazily built thread-local ASYNC_RUNTIME, spawn_task and             *)
(* swift_bridge_update_runtime (the "pump").                               *)
(*                                                                         *)
(* A work item is a boxed future.  While swift_bridge_update_runtime is    *)
(* inside rt.block_on, the item under `task.await` may run a step of its   *)
(* body, call spawn_task, return Pending (suspend) and be woken again,     *)
(* call swift_bridge_update_runtime re-entrantly, or finish.               *)
(***************************************************************************)
EXTENDS Naturals, Sequences, FiniteSets

\* ---------------------------------------------------------------- bounds
MaxItems == 3        \* work items ever submitted (over all threads)
MaxPumps == 2        \* calls of swift_bridge_update_runtime per thread
MaxBody  == 1        \* steps in one work item's body

Threads == {"main", "other"}
Designated == {"main"}
Items   == 1..MaxItems

None == 0            \* Option::None, for ASYNC_RUNTIME and for pop()

VARIABLES
    TASKS,          \* [Threads -> Seq(Items)]   thread_local Vec<AsyncFnToSpawn>
    ASYNC_RUNTIME,  \* [Threads -> Nat]          None, or the n-th Runtime built
    pc,             \* [Threads -> control point of the thread]
    cur,            \* [Threads -> item under task.await, or None]
    state,          \* [Items -> lifecycle state of the item]
    owner,          \* [Items -> thread whose TASKS received it, or "nobody"]
    pos,            \* [Items -> next step of the item's body]
    nextId,         \* the next work item to be created
    borrowed,       \* [Threads -> a RefMut of the thread's TASKS is alive]
    \* ---- history (recorded, never read by the program)
    execs,          \* [Items -> number of body steps executed]
    starts,         \* [Items -> times taken from the queue and first polled]
    completions,    \* [Items -> times it reached Completed]
    suspended,      \* [Items -> it returned Pending at least once]
    parent,         \* [Items -> item whose body submitted it, or None]
    duePump,        \* [Items -> the pump call in progress at submission, or the next]
    startPump,      \* [Items -> pump call that started it]
    donePump,       \* [Items -> pump call in which it completed]
    startIdx,       \* [Items -> rank among the starts of its thread]
    startCtr,       \* [Threads -> number of items started]
    pumpCount,      \* [Threads -> pump calls begun]
    returns,        \* [Threads -> pump calls that returned normally]
    constructions,  \* [Threads -> Runtime::new() calls that succeeded]
    yields,         \* [Threads -> yield_now() checkpoints of the current pump call]
    initFailed,     \* [Threads -> Runtime::new() failed]
    snap,           \* [Threads -> the thread's state when its pump call began]
    spawnFailed,    \* [Threads -> a spawn_task call panicked (BorrowMutError)]
    reentered,      \* [Threads -> the pump was called from a running item]
    takenBy         \* [Items -> thread whose pump call took it, or "nobody"]

prog == <<TASKS, ASYNC_RUNTIME, pc, cur, state, owner, pos, nextId, borrowed>>
hist == <<execs, starts, completions, suspended, parent, duePump, startPump,
          donePump, startIdx, startCtr, pumpCount, returns, constructions,
          yields, initFailed, snap, spawnFailed, reentered, takenBy>>
prog_but_pc == <<TASKS, ASYNC_RUNTIME, cur, state, owner, pos, nextId,
                 borrowed>>
vars == <<prog, hist>>

\* ------------------------------------------------------- pure operations
\* Vec::push
push(v, x) == Append(v, x)

\* pop() as VecDeque::pop_front / Vec::remove(0): the first element
pop_front(v) ==
    IF v = <<>> THEN [task |-> None, rest |-> v]
    ELSE [task |-> v[1], rest |-> SubSeq(v, 2, Len(v))]

\* pop() as slice::last would be: the last element, left in the vector
pop_peek(v) ==
    IF v = <<>> THEN [task |-> None, rest |-> v]
    ELSE [task |-> v[Len(v)], rest |-> v]

\* Vec::pop: the last element, or None
pop(v) ==
    IF v = <<>> THEN [task |-> None, rest |-> v]
    ELSE [task |-> v[Len(v)], rest |-> SubSeq(v, 1, Len(v) - 1)]

\* TASKS as a process-wide `static` in place of a thread_local: the task is
\* seen in the queue of every thread
spawn_task_shared(t, task) == [u \in Threads |-> push(TASKS[u], task)]

\* spawn_task as `*tasks.borrow_mut() = vec![task]`
spawn_task_replace(t, task) == [TASKS EXCEPT ![t] = <<task>>]

\* TASKS.with(|tasks| tasks.borrow_mut().push(task)) on thread t
spawn_task(t, task) == [TASKS EXCEPT ![t] = push(@, task)]

\* the RefMut bound to a variable that lives across the loop body, as in
\* `let mut q = t.borrow_mut(); while let Some(task) = q.pop() { task.await }`
borrow_mut_held(t) == [borrowed EXCEPT ![t] = TRUE]

\* t.borrow_mut() is a temporary of the closure `|t| t.borrow_mut().pop()`:
\* the RefMut is dropped when the closure returns, before task.await
borrow_mut_dropped(t) == [borrowed EXCEPT ![t] = FALSE]

\* the initialization check left out: the runtime is built on every call
is_none_always(cell) == TRUE

\* runtime_cell.borrow().is_none()
is_none(cell) == cell = None

\* what the thread's state is, as seen from outside a pump call
View(t) ==
    [tasks   |-> TASKS[t],
     runtime |-> ASYNC_RUNTIME[t],
     built   |-> constructions[t],
     items   |-> [i \in Items |-> IF owner[i] = t THEN <<state[i], pos[i]>>
                                  ELSE <<"-", 0>>]]

NoView == [tasks |-> <<>>, runtime |-> None, built |-> 0,
           items |-> [i \in Items |-> <<"-", 0>>]]

\* ------------------------------------------------------------------ Init
Init ==
    /\ TASKS = [t \in Threads |-> <<>>]
    /\ ASYNC_RUNTIME = [t \in Threads |-> None]
    /\ pc = [t \in Threads |-> "idle"]
    /\ cur = [t \in Threads |-> None]
    /\ state = [i \in Items |-> "Unsubmitted"]
    /\ owner = [i \in Items |-> "nobody"]
    /\ pos = [i \in Items |-> 0]
    /\ nextId = 1
    /\ execs = [i \in Items |-> 0]
    /\ starts = [i \in Items |-> 0]
    /\ completions = [i \in Items |-> 0]
    /\ suspended = [i \in Items |-> FALSE]
    /\ parent = [i \in Items |-> None]
    /\ duePump = [i \in Items |-> 0]
    /\ startPump = [i \in Items |-> 0]
    /\ donePump = [i \in Items |-> 0]
    /\ startIdx = [i \in Items |-> 0]
    /\ startCtr = [t \in Threads |-> 0]
    /\ pumpCount = [t \in Threads |-> 0]
    /\ returns = [t \in Threads |-> 0]
    /\ constructions = [t \in Threads |-> 0]
    /\ yields = [t \in Threads |-> 0]
    /\ initFailed = [t \in Threads |-> FALSE]
    /\ snap = [t \in Threads |-> NoView]
    /\ borrowed = [t \in Threads |-> FALSE]
    /\ spawnFailed = [t \in Threads |-> FALSE]
    /\ reentered = [t \in Threads |-> FALSE]
    /\ takenBy = [i \in Items |-> "nobody"]

\* ------------------------------------------------------------ submission
\* The bookkeeping of one spawn_task(task) call on thread t whose
\* borrow_mut() succeeds, made by `by` (None: the host, outside a pump call;
\* otherwise the running item).
Submitted(t, by) ==
    /\ TASKS' = spawn_task(t, nextId)
    /\ state' = [state EXCEPT ![nextId] = "Submitted"]
    /\ owner' = [owner EXCEPT ![nextId] = t]
    /\ parent' = [parent EXCEPT ![nextId] = by]
    /\ duePump' = [duePump EXCEPT ![nextId] =
                      IF by = None THEN pumpCount[t] + 1 ELSE pumpCount[t]]
    /\ nextId' = nextId + 1
    /\ UNCHANGED <<pc, spawnFailed>>

\* tasks.borrow_mut() finds TASKS borrowed: it panics (BorrowMutError) and
\* nothing is pushed
SubmitPanics(t) ==
    /\ spawnFailed' = [spawnFailed EXCEPT ![t] = TRUE]
    /\ pc' = [pc EXCEPT ![t] = "halted"]
    /\ UNCHANGED <<TASKS, state, owner, parent, duePump, nextId>>

\* one spawn_task call on thread t
SpawnTaskCall(t, by) ==
    /\ nextId \in Items
    /\ IF borrowed[t] THEN SubmitPanics(t) ELSE Submitted(t, by)

\* the host calls spawn_task between two pump calls
HostSubmit(t) ==
    /\ pc[t] = "idle"
    /\ SpawnTaskCall(t, None)
    /\ UNCHANGED <<ASYNC_RUNTIME, cur, pos, borrowed>>
    /\ UNCHANGED <<execs, starts, completions, suspended, startPump, donePump,
                   startIdx, startCtr, pumpCount, returns, constructions,
                   yields, initFailed, snap, reentered, takenBy>>

\* --------------------------------------------- swift_bridge_update_runtime
\* the host calls swift_bridge_update_runtime()
PumpCall(t) ==
    /\ pc[t] = "idle"
    /\ pumpCount[t] < MaxPumps
    /\ pc' = [pc EXCEPT ![t] = "init"]
    /\ pumpCount' = [pumpCount EXCEPT ![t] = @ + 1]
    /\ yields' = [yields EXCEPT ![t] = 0]
    /\ snap' = [snap EXCEPT ![t] = View(t)]
    /\ UNCHANGED prog_but_pc
    /\ UNCHANGED <<execs, starts, completions, suspended, parent, duePump,
                   startPump, donePump, startIdx, startCtr, returns,
                   constructions, initFailed,
                   spawnFailed, reentered, takenBy>>

\* if runtime_cell.borrow().is_none() { *cell = Some(Runtime::new().unwrap()) }
\* with Runtime::new() returning Ok
InitRuntime(t) ==
    /\ pc[t] = "init"
    /\ is_none(ASYNC_RUNTIME[t])
    /\ constructions' = [constructions EXCEPT ![t] = @ + 1]
    /\ ASYNC_RUNTIME' = [ASYNC_RUNTIME EXCEPT ![t] = constructions'[t]]
    /\ pc' = [pc EXCEPT ![t] = "drain"]
    /\ UNCHANGED <<TASKS, cur, state, owner, pos, nextId, borrowed>>
    /\ UNCHANGED <<execs, starts, completions, suspended, parent, duePump,
                   startPump, donePump, startIdx, startCtr, pumpCount, returns,
                   yields, initFailed, snap,
                   spawnFailed, reentered, takenBy>>

\* Runtime::new().ok() in place of unwrap(): on Err the cell stays None, the
\* `if let Some(rt)` below does not match, and the function returns
InitRuntimeFailSkip(t) ==
    /\ pc[t] = "init"
    /\ is_none(ASYNC_RUNTIME[t])
    /\ initFailed' = [initFailed EXCEPT ![t] = TRUE]
    /\ returns' = [returns EXCEPT ![t] = @ + 1]
    /\ pc' = [pc EXCEPT ![t] = "idle"]
    /\ UNCHANGED prog_but_pc
    /\ UNCHANGED <<execs, starts, completions, suspended, parent, duePump,
                   startPump, donePump, startIdx, startCtr, pumpCount,
                   constructions, yields, snap,
                   spawnFailed, reentered, takenBy>>

\* Runtime::new() returns Err: unwrap() panics before the cell is written (the
\* right-hand side is evaluated first), and the panic leaves the extern "C"
\* function without a normal return
InitRuntimeFail(t) ==
    /\ pc[t] = "init"
    /\ is_none(ASYNC_RUNTIME[t])
    /\ initFailed' = [initFailed EXCEPT ![t] = TRUE]
    /\ pc' = [pc EXCEPT ![t] = "halted"]
    /\ UNCHANGED prog_but_pc
    /\ UNCHANGED <<execs, starts, completions, suspended, parent, duePump,
                   startPump, donePump, startIdx, startCtr, pumpCount, returns,
                   constructions, yields, snap,
                   spawnFailed, reentered, takenBy>>

\* the cell written without the is_none() test: a runtime that is already
\* there is replaced by a new one
InitSkipRebuild(t) ==
    /\ pc[t] = "init"
    /\ ~is_none(ASYNC_RUNTIME[t])
    /\ constructions' = [constructions EXCEPT ![t] = @ + 1]
    /\ ASYNC_RUNTIME' = [ASYNC_RUNTIME EXCEPT ![t] = constructions'[t]]
    /\ pc' = [pc EXCEPT ![t] = "drain"]
    /\ UNCHANGED <<TASKS, cur, state, owner, pos, nextId, borrowed>>
    /\ UNCHANGED <<execs, starts, completions, suspended, parent, duePump,
                   startPump, donePump, startIdx, startCtr, pumpCount, returns,
                   yields, initFailed, snap,
                   spawnFailed, reentered, takenBy>>

\* the runtime is already there: the `if` body is skipped
InitSkip(t) ==
    /\ pc[t] = "init"
    /\ ~is_none(ASYNC_RUNTIME[t])
    /\ pc' = [pc EXCEPT ![t] = "drain"]
    /\ UNCHANGED prog_but_pc
    /\ UNCHANGED hist

\* while let Some(task) = TASKS.with(|t| t.borrow_mut().pop()) { task.await
TakeNext(t) ==
    LET r == pop(TASKS[t]) IN
    /\ pc[t] = "drain"
    /\ r.task # None
    /\ TASKS' = [TASKS EXCEPT ![t] = r.rest]
    /\ cur' = [cur EXCEPT ![t] = r.task]
    /\ state' = [state EXCEPT ![r.task] = "Running"]
    /\ pc' = [pc EXCEPT ![t] = "await"]
    /\ starts' = [starts EXCEPT ![r.task] = @ + 1]
    /\ startPump' = [startPump EXCEPT ![r.task] = pumpCount[t]]
    /\ startCtr' = [startCtr EXCEPT ![t] = @ + 1]
    /\ startIdx' = [startIdx EXCEPT ![r.task] = startCtr'[t]]
    /\ takenBy' = [takenBy EXCEPT ![r.task] = t]
    /\ borrowed' = borrow_mut_dropped(t)
    /\ UNCHANGED <<ASYNC_RUNTIME, owner, pos, nextId>>
    /\ UNCHANGED <<execs, completions, suspended, parent, duePump, donePump,
                   pumpCount, returns, constructions, yields, initFailed, snap,
                   spawnFailed, reentered>>

\* the loop as `for task in take(&mut tasks)`: it ends when only items
\* submitted during this call are left
DrainDeferSpawned(t) ==
    /\ pc[t] = "drain"
    /\ \A k \in 1..Len(TASKS[t]) :
          parent[TASKS[t][k]] # None /\ duePump[TASKS[t][k]] = pumpCount[t]
    /\ pc' = [pc EXCEPT ![t] = "yield"]
    /\ UNCHANGED prog_but_pc
    /\ UNCHANGED hist

\* the loop as `if let`: it ends after one item
DrainAfterOne(t) ==
    /\ pc[t] = "drain"
    /\ \/ pop(TASKS[t]).task = None
       \/ \E i \in Items : owner[i] = t /\ startPump[i] = pumpCount[t]
    /\ pc' = [pc EXCEPT ![t] = "yield"]
    /\ UNCHANGED prog_but_pc
    /\ UNCHANGED hist

\* pop() returned None: the while-let loop ends
DrainEmpty(t) ==
    /\ pc[t] = "drain"
    /\ pop(TASKS[t]).task = None
    /\ pc' = [pc EXCEPT ![t] = "yield"]
    /\ borrowed' = borrow_mut_dropped(t)
    /\ UNCHANGED <<TASKS, ASYNC_RUNTIME, cur, state, owner, pos, nextId>>
    /\ UNCHANGED hist

\* yield_now() returning Pending without waking the task: block_on parks the
\* thread and nothing unparks it
YieldNowNoWake(t) ==
    /\ pc[t] = "yield"
    /\ pc' = [pc EXCEPT ![t] = "stuck"]
    /\ UNCHANGED prog_but_pc
    /\ UNCHANGED hist

\* yield_now() dropped without .await: the checkpoint does not happen
YieldNowSkipped(t) ==
    /\ pc[t] = "yield"
    /\ pc' = [pc EXCEPT ![t] = "return"]
    /\ UNCHANGED prog_but_pc
    /\ UNCHANGED hist

\* tokio::task::yield_now().await
YieldNow(t) ==
    /\ pc[t] = "yield"
    /\ yields' = [yields EXCEPT ![t] = @ + 1]
    /\ pc' = [pc EXCEPT ![t] = "return"]
    /\ UNCHANGED prog_but_pc
    /\ UNCHANGED <<execs, starts, completions, suspended, parent, duePump,
                   startPump, donePump, startIdx, startCtr, pumpCount, returns,
                   constructions, initFailed, snap,
                   spawnFailed, reentered, takenBy>>

\* block_on returns, the borrow of the cell ends, the function returns
PumpReturn(t) ==
    /\ pc[t] = "return"
    /\ returns' = [returns EXCEPT ![t] = @ + 1]
    /\ pc' = [pc EXCEPT ![t] = "idle"]
    /\ UNCHANGED prog_but_pc
    /\ UNCHANGED <<execs, starts, completions, suspended, parent, duePump,
                   startPump, donePump, startIdx, startCtr, pumpCount,
                   constructions, yields, initFailed, snap,
                   spawnFailed, reentered, takenBy>>

\* ------------------------------------------- the item under `task.await`
\* the running item executes the next step of its body
ItemStep(t) ==
    /\ pc[t] = "await"
    /\ pos[cur[t]] < MaxBody
    /\ pos' = [pos EXCEPT ![cur[t]] = @ + 1]
    /\ execs' = [execs EXCEPT ![cur[t]] = @ + 1]
    /\ UNCHANGED <<TASKS, ASYNC_RUNTIME, pc, cur, state, owner, nextId,
                   borrowed>>
    /\ UNCHANGED <<starts, completions, suspended, parent, duePump, startPump,
                   donePump, startIdx, startCtr, pumpCount, returns,
                   constructions, yields, initFailed, snap,
                   spawnFailed, reentered, takenBy>>

\* the running item calls spawn_task
ItemSpawn(t) ==
    /\ pc[t] = "await"
    /\ SpawnTaskCall(t, cur[t])
    /\ UNCHANGED <<ASYNC_RUNTIME, cur, pos, borrowed>>
    /\ UNCHANGED <<execs, starts, completions, suspended, startPump, donePump,
                   startIdx, startCtr, pumpCount, returns, constructions,
                   yields, initFailed, snap, reentered, takenBy>>

\* a task that returns Pending pushed back onto TASKS, to be polled again by
\* a later pop()
ItemSuspendRequeue(t) ==
    /\ pc[t] = "await"
    /\ state' = [state EXCEPT ![cur[t]] = "Suspended"]
    /\ suspended' = [suspended EXCEPT ![cur[t]] = TRUE]
    /\ TASKS' = [TASKS EXCEPT ![t] = push(@, cur[t])]
    /\ cur' = [cur EXCEPT ![t] = None]
    /\ pc' = [pc EXCEPT ![t] = "yield"]
    /\ UNCHANGED <<ASYNC_RUNTIME, owner, pos, nextId, borrowed>>
    /\ UNCHANGED <<execs, starts, completions, parent, duePump, startPump,
                   donePump, startIdx, startCtr, pumpCount, returns,
                   constructions, yields, initFailed, snap,
                   spawnFailed, reentered, takenBy>>

\* the item handed to the runtime as a detached task: when it returns Pending
\* the loop goes on to the next pop()
ItemSuspendDetach(t) ==
    /\ pc[t] = "await"
    /\ state' = [state EXCEPT ![cur[t]] = "Suspended"]
    /\ suspended' = [suspended EXCEPT ![cur[t]] = TRUE]
    /\ cur' = [cur EXCEPT ![t] = None]
    /\ pc' = [pc EXCEPT ![t] = "drain"]
    /\ UNCHANGED <<TASKS, ASYNC_RUNTIME, owner, pos, nextId, borrowed>>
    /\ UNCHANGED <<execs, starts, completions, parent, duePump, startPump,
                   donePump, startIdx, startCtr, pumpCount, returns,
                   constructions, yields, initFailed, snap,
                   spawnFailed, reentered, takenBy>>

\* the running item returns Pending: the async block is Pending at task.await
\* and block_on parks the thread
ItemSuspend(t) ==
    /\ pc[t] = "await"
    /\ state' = [state EXCEPT ![cur[t]] = "Suspended"]
    /\ suspended' = [suspended EXCEPT ![cur[t]] = TRUE]
    /\ pc' = [pc EXCEPT ![t] = "parked"]
    /\ UNCHANGED <<TASKS, ASYNC_RUNTIME, cur, owner, pos, nextId, borrowed>>
    /\ UNCHANGED <<execs, starts, completions, parent, duePump, startPump,
                   donePump, startIdx, startCtr, pumpCount, returns,
                   constructions, yields, initFailed, snap,
                   spawnFailed, reentered, takenBy>>

\* the waker fires: block_on polls the async block again, which polls the
\* item at the await where it stopped
ItemWake(t) ==
    /\ pc[t] = "parked"
    /\ state' = [state EXCEPT ![cur[t]] = "Running"]
    /\ pc' = [pc EXCEPT ![t] = "await"]
    /\ UNCHANGED <<TASKS, ASYNC_RUNTIME, cur, owner, pos, nextId, borrowed>>
    /\ UNCHANGED hist

\* the running item returns Ready(()): the loop goes back to pop()
ItemComplete(t) ==
    /\ pc[t] = "await"
    /\ state' = [state EXCEPT ![cur[t]] = "Completed"]
    /\ completions' = [completions EXCEPT ![cur[t]] = @ + 1]
    /\ donePump' = [donePump EXCEPT ![cur[t]] = pumpCount[t]]
    /\ cur' = [cur EXCEPT ![t] = None]
    /\ pc' = [pc EXCEPT ![t] = "drain"]
    /\ UNCHANGED <<TASKS, ASYNC_RUNTIME, owner, pos, nextId, borrowed>>
    /\ UNCHANGED <<execs, starts, suspended, parent, duePump, startPump,
                   startIdx, startCtr, pumpCount, returns, constructions,
                   yields, initFailed, snap,
                   spawnFailed, reentered, takenBy>>

\* a block_on that may be nested: the re-entrant call runs its own drain
\* loop, here on the item at the end of the queue, and returns
ItemPumpNested(t) ==
    LET r == pop(TASKS[t]) IN
    /\ pc[t] = "await"
    /\ r.task # None
    /\ reentered' = [reentered EXCEPT ![t] = TRUE]
    /\ TASKS' = [TASKS EXCEPT ![t] = r.rest]
    /\ state' = [state EXCEPT ![r.task] = "Completed"]
    /\ starts' = [starts EXCEPT ![r.task] = @ + 1]
    /\ completions' = [completions EXCEPT ![r.task] = @ + 1]
    /\ startPump' = [startPump EXCEPT ![r.task] = pumpCount[t]]
    /\ donePump' = [donePump EXCEPT ![r.task] = pumpCount[t]]
    /\ takenBy' = [takenBy EXCEPT ![r.task] = t]
    /\ UNCHANGED <<ASYNC_RUNTIME, pc, cur, owner, pos, nextId, borrowed>>
    /\ UNCHANGED <<execs, suspended, parent, duePump, startIdx, startCtr,
                   pumpCount, returns, constructions, yields, initFailed,
                   snap, spawnFailed>>

\* the running item calls swift_bridge_update_runtime(): the cell is only
\* borrowed shared, so both borrow() calls succeed and is_none() is false;
\* rt.block_on then panics, the thread being inside block_on already
ItemPump(t) ==
    /\ pc[t] = "await"
    /\ reentered' = [reentered EXCEPT ![t] = TRUE]
    /\ pc' = [pc EXCEPT ![t] = "halted"]
    /\ UNCHANGED prog_but_pc
    /\ UNCHANGED <<execs, starts, completions, suspended, parent, duePump,
                   startPump, donePump, startIdx, startCtr, pumpCount, returns,
                   constructions, yields, initFailed, snap, spawnFailed,
                   takenBy>>

\* ------------------------------------------------------------------ Next
\* one step of thread t
Step(t) ==
    \/ HostSubmit(t)
    \/ PumpCall(t)
    \/ InitRuntime(t)
    \/ InitRuntimeFail(t)
    \/ InitSkip(t)
    \/ TakeNext(t)
    \/ DrainEmpty(t)
    \/ YieldNow(t)
    \/ PumpReturn(t)
    \/ ItemStep(t)
    \/ ItemSpawn(t)
    \/ ItemSuspend(t)
    \/ ItemWake(t)
    \/ ItemComplete(t)
    \/ ItemPump(t)

\* The program as its documentation has it used: every call is made on the
\* designated (main) thread.
Next == \E t \in Designated : Step(t)

Spec == Init /\ [][Next]_vars

\* Any thread may call spawn_task and swift_bridge_update_runtime: each has
\* its own TASKS and ASYNC_RUNTIME.  The two threads share a budget of
\* MaxPumps pump calls and of one work item fewer than MaxItems, which keeps
\* the product of their states small enough to check.
PumpsBegun == pumpCount["main"] + pumpCount["other"]

WithinBudget == PumpsBegun <= MaxPumps /\ nextId <= MaxItems

NextThreads ==
    \E t \in Threads :
        \/ HostSubmit(t) /\ WithinBudget'
        \/ PumpCall(t) /\ WithinBudget'
        \/ InitRuntime(t) /\ WithinBudget'
        \/ InitRuntimeFail(t) /\ WithinBudget'
        \/ InitSkip(t) /\ WithinBudget'
        \/ TakeNext(t) /\ WithinBudget'
        \/ DrainEmpty(t) /\ WithinBudget'
        \/ YieldNow(t) /\ WithinBudget'
        \/ PumpReturn(t) /\ WithinBudget'
        \/ ItemStep(t) /\ WithinBudget'
        \/ ItemSpawn(t) /\ WithinBudget'
        \/ ItemSuspend(t) /\ WithinBudget'
        \/ ItemWake(t) /\ WithinBudget'
        \/ ItemComplete(t) /\ WithinBudget'
        \/ ItemPump(t) /\ WithinBudget'

SpecThreads == Init /\ [][NextThreads]_vars

\* The steps of a pump call that the thread takes by itself, and the wake-up
\* of the suspended item; at most one of them is enabled in any state.
Progress(t) ==
    \/ InitRuntime(t)
    \/ InitRuntimeFail(t)
    \/ InitSkip(t)
    \/ TakeNext(t)
    \/ DrainEmpty(t)
    \/ YieldNow(t)
    \/ PumpReturn(t)
    \/ ItemWake(t)

\* The thread keeps executing the pump call it is in, and every work item
\* finishes: a suspended item is woken, and an item that can return Ready
\* infinitely often does.
Fairness ==
    \A t \in Designated :
        /\ WF_vars(Progress(t))
        /\ SF_vars(ItemComplete(t))

SpecFair == Spec /\ Fairness

\* ------------------------------------------------------------ vocabulary
Mine(t) == {i \in Items : owner[i] = t}

\* the n-th pump call of thread t has run to its normal return
Returning(t, n) ==
    \/ pc[t] = "return" /\ pumpCount[t] = n
    \/ returns[t] >= n

\* started and not yet Completed
InFlight(i) == starts[i] > 0 /\ state[i] # "Completed"

\* ---------------------------------------------------------------- claims
\* C1: after submissions followed by one pump call in which no item
\* suspends, every submitted item has been started once and has reached
\* Completed once, in that pump call; no item is ever started or completed
\* twice, and no step of a body is executed twice.
C1_AllCompleteOnce ==
    /\ \A i \in Items :
          starts[i] <= 1 /\ completions[i] <= 1 /\ execs[i] = pos[i]
    /\ \A t \in Threads :
          (/\ pc[t] = "return"
           /\ \A i \in Mine(t) : duePump[i] = pumpCount[t] => ~suspended[i])
          => \A i \in Mine(t) :
                /\ state[i] = "Completed"
                /\ starts[i] = 1
                /\ completions[i] = 1
                /\ startPump[i] = duePump[i]
                /\ donePump[i] = duePump[i]

\* two items submitted by the host, then a pump call without suspension that
\* is about to return
C1_Witness ==
    /\ pc["main"] = "return"
    /\ \E a, b \in Mine("main") :
          /\ a # b
          /\ parent[a] = None /\ parent[b] = None
          /\ duePump[a] = pumpCount["main"] /\ duePump[b] = pumpCount["main"]
          /\ execs[a] = MaxBody
    /\ \A i \in Items : ~suspended[i]

\* C2 (as claimed): items submitted by the host before the same pump call
\* start in submission order; item ids are handed out in submission order.
C2_FifoStart ==
    \A a, b \in Items :
        (/\ a < b
         /\ owner[a] = owner[b] /\ owner[a] # "nobody"
         /\ parent[a] = None /\ parent[b] = None
         /\ duePump[a] = duePump[b]
         /\ starts[b] > 0)
        => (starts[a] > 0 /\ startIdx[a] < startIdx[b])

\* C3: an item submitted from within a running item is started in the pump
\* call that ran its parent, and is Completed when that call returns.
C3_SameCycleSpawn ==
    \A i \in Items :
        parent[i] # None =>
            /\ duePump[i] = startPump[parent[i]]
            /\ starts[i] > 0 => startPump[i] = duePump[i]
            /\ Returning(owner[i], duePump[i]) =>
                  (state[i] = "Completed" /\ donePump[i] = duePump[i])

\* a pump call about to return that ran an item submitted during it
C3_Witness ==
    \E i \in Items :
        /\ parent[i] # None
        /\ owner[i] = "main"
        /\ pc["main"] = "return"
        /\ duePump[i] = pumpCount["main"]
        /\ state[i] = "Completed"

\* C4 (as claimed): an item that suspended is completed by a later pump
\* call than the one that started it.
C4_SuspendedResumesLater ==
    \A i \in Items :
        (suspended[i] /\ state[i] = "Completed") => donePump[i] > startPump[i]

\* C5: a pump call that returns normally leaves the task queue empty.
C5_ReturnsWithEmptyQueue ==
    \A t \in Threads : pc[t] = "return" => TASKS[t] = <<>>

\* the second pump call returns, having run an item submitted during its
\* drain loop
C5_Witness ==
    /\ pc["main"] = "return"
    /\ pumpCount["main"] = 2
    /\ \E i, j \in Mine("main") :
          /\ parent[j] = i
          /\ duePump[i] = 2
          /\ state[j] = "Completed"

\* C6: the runtime is built by the first pump call of a thread and by no
\* other call; once the cell holds a runtime it holds that same runtime for
\* good.
C6_RuntimeBuiltOnce ==
    /\ [](\A t \in Threads :
             /\ constructions[t] <= 1
             /\ pumpCount[t] = 0 => ASYNC_RUNTIME[t] = None
             /\ ASYNC_RUNTIME[t] # None <=> constructions[t] = 1)
    /\ [][\A t \in Threads :
             ASYNC_RUNTIME[t] # None => ASYNC_RUNTIME'[t] = ASYNC_RUNTIME[t]]_vars

\* the second pump call is past the initialization test, the runtime of the
\* first call in place
C6_Witness ==
    /\ pumpCount["main"] = 2
    /\ pc["main"] = "drain"
    /\ ASYNC_RUNTIME["main"] = 1
    /\ constructions["main"] = 1

\* the pump call of thread t began with an empty queue, a runtime in place
\* and no item suspended
EmptyAtEntry(t) ==
    /\ snap[t].tasks = <<>>
    /\ snap[t].runtime # None
    /\ \A i \in Items : snap[t].items[i][1] # "Suspended"

\* C7: a pump call that begins with an empty queue, no suspended item and
\* the runtime in place goes straight through the loop to the yield and the
\* return; the queue, the runtime and every item are as they were when the
\* call began, and the call has yielded once when it returns.
C7_EmptyPumpNoEffect ==
    \A t \in Threads :
        (pc[t] # "idle" /\ EmptyAtEntry(t)) =>
            /\ pc[t] \in {"init", "drain", "yield", "return"}
            /\ View(t) = snap[t]
            /\ pc[t] = "return" => yields[t] = 1

\* an empty pump call about to return, after a call that ran an item
C7_Witness ==
    /\ pc["main"] = "return"
    /\ EmptyAtEntry("main")
    /\ \E i \in Mine("main") : state[i] = "Completed" /\ donePump[i] = 1
    /\ pumpCount["main"] = 2

\* C8: when Runtime::new() fails the pump call halts and never returns; the
\* cell stays None, the queue is as it was when the call began, and every
\* item of the thread is still queued and unstarted.
C8_InitFailureHalts ==
    \A t \in Threads :
        initFailed[t] =>
            /\ pc[t] = "halted"
            /\ returns[t] = 0
            /\ ASYNC_RUNTIME[t] = None
            /\ TASKS[t] = snap[t].tasks
            /\ \A i \in Mine(t) :
                  /\ state[i] = "Submitted"
                  /\ starts[i] = 0
                  /\ \E k \in 1..Len(TASKS[t]) : TASKS[t][k] = i

\* construction has failed with two items queued
C8_Witness ==
    /\ initFailed["main"]
    /\ Len(TASKS["main"]) >= 2

\* C9: a step that submits an item (the only steps that create one) adds
\* that item to the queue of the calling thread and changes nothing else:
\* the queue is one longer and is the old queue once the new item is taken
\* out, the runtime cell, the control point of every thread and the awaited
\* item are the same, and no item's state, position or counters move.
C9_SubmitFrame ==
    [][nextId' # nextId =>
        \E t \in Threads :
            /\ nextId' = nextId + 1
            /\ Len(TASKS'[t]) = Len(TASKS[t]) + 1
            /\ SelectSeq(TASKS'[t], LAMBDA x : x # nextId) = TASKS[t]
            /\ \A u \in Threads \ {t} : TASKS'[u] = TASKS[u]
            /\ owner'[nextId] = t
            /\ state'[nextId] = "Submitted"
            /\ ASYNC_RUNTIME' = ASYNC_RUNTIME
            /\ pc' = pc /\ cur' = cur
            /\ \A i \in Items \ {nextId} :
                  state'[i] = state[i] /\ owner'[i] = owner[i]
            /\ pos' = pos /\ execs' = execs
            /\ starts' = starts /\ completions' = completions
            /\ pumpCount' = pumpCount /\ returns' = returns
            /\ constructions' = constructions /\ yields' = yields]_vars

\* a running item has submitted an item onto a queue that held one already
C9_Witness ==
    /\ pc["main"] = "await"
    /\ ASYNC_RUNTIME["main"] # None
    /\ Len(TASKS["main"]) >= 2
    /\ parent[TASKS["main"][Len(TASKS["main"])]] = cur["main"]

\* C10: on one thread at most one item is started and not yet Completed,
\* and while there is one it is the item the loop is awaiting: the loop is
\* at task.await (or parked there, or halted there), not at pop().
C10_NoPreemption ==
    \A t \in Threads :
        LET live == {i \in Mine(t) : InFlight(i)} IN
        /\ Cardinality(live) <= 1
        /\ live # {} =>
              (live = {cur[t]} /\ pc[t] \in {"await", "parked", "halted"})
        /\ \A i \in Mine(t) : state[i] \in {"Running", "Suspended"} => i \in live

\* the awaited item has submitted an item and is suspended, with two items
\* waiting in the queue
C10_Witness ==
    /\ pc["main"] = "parked"
    /\ state[cur["main"]] = "Suspended"
    /\ Len(TASKS["main"]) >= 2
    /\ \E k \in 1..Len(TASKS["main"]) : parent[TASKS["main"][k]] = cur["main"]

\* number of places of the queue q that hold item i
Occ(q, i) == Cardinality({k \in 1..Len(q) : q[k] = i})

\* C11: every submitted item is in exactly one of three places: in the
\* queue of its thread, once, not yet started (Submitted); with the executor
\* as the one awaited item (Running or Suspended), started once and in no
\* queue; or Completed, started once, completed once and in no queue.  An
\* item that was never submitted is in no queue and in none of these states.
C11_Lifecycle ==
    \A i \in Items :
        /\ owner[i] = "nobody" <=> state[i] = "Unsubmitted"
        /\ state[i] \in {"Unsubmitted", "Submitted", "Running", "Suspended",
                         "Completed"}
        /\ \A t \in Threads : owner[i] # t => Occ(TASKS[t], i) = 0
        /\ \A t \in Threads : owner[i] = t =>
              /\ state[i] = "Submitted" <=> Occ(TASKS[t], i) = 1
              /\ state[i] # "Submitted" <=> Occ(TASKS[t], i) = 0
              /\ state[i] = "Submitted" =>
                    (starts[i] = 0 /\ completions[i] = 0 /\ cur[t] # i)
              /\ state[i] \in {"Running", "Suspended"} =>
                    (starts[i] = 1 /\ completions[i] = 0 /\ cur[t] = i)
              /\ state[i] = "Completed" =>
                    (starts[i] = 1 /\ completions[i] = 1 /\ cur[t] # i)

\* one item of each kind: queued, suspended with the executor, completed
C11_Witness ==
    \E a, b, c \in Mine("main") :
        /\ state[a] = "Submitted"
        /\ state[b] = "Suspended"
        /\ state[c] = "Completed"
        /\ suspended[c]

\* C12: the queue holds its items in submission order and every removal
\* takes the item at its end, the one submitted last among those queued,
\* and makes it the awaited item; so items the host queued before a pump
\* call start in reverse submission order.
C12_LastInFirstOut ==
    /\ [](\A t \in Threads : \A k \in 1..Len(TASKS[t]) :
             k > 1 => TASKS[t][k - 1] < TASKS[t][k])
    /\ [](\A a, b \in Items :
             (/\ a < b
              /\ owner[a] = owner[b] /\ owner[a] # "nobody"
              /\ parent[a] = None /\ parent[b] = None
              /\ duePump[a] = duePump[b]
              /\ starts[a] > 0)
             => (starts[b] > 0 /\ startIdx[b] < startIdx[a]))
    /\ [][\A t \in Threads :
             Len(TASKS'[t]) < Len(TASKS[t]) =>
                 \E i \in Items :
                     /\ TASKS[t] = Append(TASKS'[t], i)
                     /\ \A k \in 1..Len(TASKS[t]) : TASKS[t][k] <= i
                     /\ cur'[t] = i
                     /\ state'[i] = "Running"]_vars

\* item 3, submitted during the drain by item 2, has started while item 1,
\* submitted first, is still queued
C12_Witness ==
    /\ parent[3] = 2 /\ parent[2] = None /\ parent[1] = None
    /\ owner[1] = "main" /\ owner[2] = "main"
    /\ starts[3] = 1
    /\ state[1] = "Submitted"

\* C13: no spawn_task call panics, and wherever spawn_task can be called
\* (by the host between pump calls, by the awaited item while it runs) no
\* RefMut of the thread's TASKS is alive.
C13_SubmitCannotFail ==
    \A t \in Threads :
        /\ ~spawnFailed[t]
        /\ pc[t] \in {"idle", "await"} => ~borrowed[t]

\* the awaited item has submitted an item from inside the drain loop
C13_Witness ==
    /\ pc["main"] = "await"
    /\ \E i \in Mine("main") :
          parent[i] = cur["main"] /\ state[i] = "Submitted"

\* A pump call that never returns keeps its thread inside the call for
\* ever, calls on one thread being sequential; so "every pump call returns"
\* is "the thread is outside every pump call again and again".
\* C14 (as claimed): every pump call returns, unless an item it runs does
\* not finish (here: the item panics by calling the pump re-entrantly).
C14_PumpReturns ==
    \A t \in Threads : []<>(pc[t] = "idle" \/ reentered[t])

\* C14 (amended): every pump call whose runtime construction does not fail
\* returns, unless an item it runs does not finish; and the drain loop
\* takes the next item whenever the queue is not empty, however many items
\* the call has run.
C14_PumpReturnsUnlessInitFails ==
    /\ \A t \in Threads : []<>(pc[t] = "idle" \/ reentered[t] \/ initFailed[t])
    /\ [](\A t \in Threads :
             (pc[t] = "drain" /\ TASKS[t] # <<>>) => ENABLED TakeNext(t))

\* one pump call has run every item there is, some of them submitted during
\* the call, and has returned
C14_Witness ==
    /\ returns["main"] = pumpCount["main"]
    /\ pc["main"] = "idle"
    /\ \A i \in Items :
          state[i] = "Completed" /\ donePump[i] = pumpCount["main"]
    /\ \E i \in Items : parent[i] # None
    /\ \E i \in Items : suspended[i]

\* the only step that takes an item out of a queue is the drain loop
\* starting it
OnlyStartRemoves ==
    [][\A t \in Threads : \A i \in Items :
          (Occ(TASKS[t], i) > 0 /\ Occ(TASKS'[t], i) = 0) =>
              (/\ state'[i] = "Running"
               /\ starts'[i] = starts[i] + 1
               /\ cur'[t] = i)]_vars

\* item i is submitted and its thread has called the pump since
PumpedAfterSubmit(i) ==
    /\ owner[i] \in Threads
    /\ pumpCount[owner[i]] >= duePump[i]

\* an item of i's thread did not finish: it panicked in a re-entrant pump
ItemPanicked(i) == owner[i] \in Threads /\ reentered[owner[i]]

\* the runtime construction of i's thread failed
InitFailedFor(i) == owner[i] \in Threads /\ initFailed[owner[i]]

\* once an item is submitted and pumped after, it stays so
PumpedAfterSubmitStable ==
    [][\A i \in Items : PumpedAfterSubmit(i) => PumpedAfterSubmit(i)']_vars

\* C15 (as claimed): once the pump has been called after an item's
\* submission, the item reaches Completed, unless an item does not finish.
\* (Being pumped after submission is stable, so the item reaches Completed
\* if and only if again and again it is Completed.)
C15_RunsToCompletion ==
    /\ PumpedAfterSubmitStable
    /\ []<>(\A i \in Items :
               PumpedAfterSubmit(i) =>
                   (state[i] = "Completed" \/ ItemPanicked(i)))

\* C15 (amended): once the pump has been called after an item's submission,
\* the item reaches Completed, unless an item does not finish or the
\* runtime construction fails; and nothing but the drain loop starting an
\* item takes it out of the queue.
C15_RunsToCompletionUnlessInitFails ==
    /\ PumpedAfterSubmitStable
    /\ []<>(\A i \in Items :
               PumpedAfterSubmit(i) =>
                   (state[i] = "Completed" \/ ItemPanicked(i)
                       \/ InitFailedFor(i)))
    /\ OnlyStartRemoves

\* an item the host submitted before the second pump call has completed in
\* it, after suspending
C15_Witness ==
    \E i \in Mine("main") :
        /\ parent[i] = None
        /\ duePump[i] = 2
        /\ suspended[i]
        /\ state[i] = "Completed"
        /\ donePump[i] = 2

C17_ThreadConfinement ==
    /\ \A t \in Threads :
          /\ \A k \in 1..Len(TASKS[t]) : owner[TASKS[t][k]] = t
          /\ cur[t] # None => (owner[cur[t]] = t /\ takenBy[cur[t]] = t)
          /\ ASYNC_RUNTIME[t] # None =>
                (pumpCount[t] >= 1 /\ constructions[t] = 1)
          /\ pumpCount[t] = 0 => \A i \in Mine(t) : state[i] = "Submitted"
    /\ \A i \in Items :
          /\ starts[i] <= 1
          /\ starts[i] > 0 <=> takenBy[i] # "nobody"
          /\ takenBy[i] # "nobody" =>
                (takenBy[i] = owner[i] /\ pumpCount[owner[i]] >= duePump[i])

\* each of the two threads has run an item of its own in a pump call of its
\* own, with a runtime of its own
C17_Witness ==
    \E i, j \in Items :
        /\ owner[i] = "main" /\ takenBy[i] = "main" /\ state[i] = "Completed"
        /\ owner[j] = "other" /\ takenBy[j] = "other" /\ state[j] = "Completed"
        /\ ASYNC_RUNTIME["main"] # None /\ ASYNC_RUNTIME["other"] # None

\* C18: a pump call yields once, after the pop() that returned None and
\* before it returns: no yield has happened while the call initializes,
\* drains or awaits; the yield happens with the queue empty and nothing
\* awaited; the call returns with exactly one yield made; and between the
\* yield and the return no item is taken or started.
C18_YieldOnceBeforeReturn ==
    /\ [](\A t \in Threads :
             /\ pc[t] \in {"init", "drain", "await", "parked", "yield"} =>
                   yields[t] = 0
             /\ pc[t] \in {"yield", "return"} =>
                   (TASKS[t] = <<>> /\ cur[t] = None)
             /\ pc[t] = "return" => yields[t] = 1)
    /\ [][\A t \in Threads :
             /\ yields'[t] > yields[t] =>
                   (pc[t] = "yield" /\ pc'[t] = "return" /\ yields'[t] = 1)
             /\ returns'[t] # returns[t] =>
                   (pc[t] = "return" /\ yields[t] = 1 /\ yields'[t] = 1)
             /\ (yields[t] = 1 /\ pc[t] # "idle") =>
                   (TASKS'[t] = TASKS[t] /\ startCtr'[t] = startCtr[t]
                       /\ starts' = starts)]_vars

\* the second pump call is about to return after its yield, having run an
\* item that submitted another
C18_Witness ==
    /\ pc["main"] = "return"
    /\ yields["main"] = 1
    /\ pumpCount["main"] = 2
    /\ \E i \in Mine("main") : parent[i] # None /\ donePump[i] = 2

\* C19: when a pump call has returned, no item of the thread is Running or
\* Suspended and every item that was started is Completed; an item in
\* flight belongs to the pump call in progress, and a Completed item was
\* completed by the pump call that started it.
C19_NoExecutionSpansPumps ==
    /\ \A t \in Threads :
          pc[t] \in {"return", "idle"} =>
              \A i \in Mine(t) :
                  /\ state[i] \notin {"Running", "Suspended"}
                  /\ starts[i] > 0 => state[i] = "Completed"
    /\ \A i \in Items :
          /\ InFlight(i) =>
                (startPump[i] = pumpCount[owner[i]]
                    /\ returns[owner[i]] < pumpCount[owner[i]])
          /\ state[i] = "Completed" => donePump[i] = startPump[i]

\* a pump call has returned after running an item that suspended in it
C19_Witness ==
    /\ pc["main"] = "idle"
    /\ returns["main"] = 1 /\ pumpCount["main"] = 1
    /\ \E i \in Mine("main") :
          suspended[i] /\ state[i] = "Completed" /\ execs[i] = MaxBody
====
